---- MODULE Spec2Model ----
(***************************************************************************)
(* The vectorization pipeline of ember/__init__.py: counting pass,         *)
(* allocation of the memory-mapped output files, the pool of workers that  *)
(* run vectorize() on (irow, line) tasks drained with imap_unordered, and  *)
(* read_vectorized_features.                                               *)
(*                                                                         *)
(* A file of float32 values is modelled by its cells (one integer per      *)
(* 4-byte float; the labels and feature values used are small integers,    *)
(* which float32 holds exactly) and by pad, the number of bytes that       *)
(* follow the last whole cell.                                             *)
(***************************************************************************)
EXTENDS Integers, Sequences, FiniteSets, TLC

\* ------------------------------------------------------------------ bounds
MaxRecs == 2        \* lines of one split's input files
MaxWorkers == 2     \* largest pool size (multiprocessing.Pool(): cpu count)
MaxDim == 3         \* largest extractor.dim drawn for the reader
MaxExtra == 5       \* bytes appended to a written file before it is read
TrainFiles == 2     \* train shard files modelled (the source lists six)

\* extractor.dim of the run that writes the files
Dim == 2

Splits == <<"train", "test">>
SplitSet == {"train", "test"}

\* ------------------------------------------------------------ raw records
\* One line of a jsonl file.  json: whether json.loads accepts it; label and
\* feat: the decoded record's label and the payload the extractor reads;
\* excess: by how much the vector the extractor returns for it is too long.
LineA == [json |-> TRUE, label |-> 1, feat |-> 1, excess |-> 0]
LineB == [json |-> TRUE, label |-> -1, feat |-> 2, excess |-> 0]
LineMalformed == [json |-> FALSE, label |-> 0, feat |-> 0, excess |-> 0]
LineWrongLen == [json |-> TRUE, label |-> 1, feat |-> 3, excess |-> 1]
Lines == {LineA, LineB, LineMalformed, LineWrongLen}
GoodLines == {LineA, LineB}

SeqsUpTo(S, n) == UNION {[1..k -> S] : k \in 0..n}

\* json.loads(raw_features_string) succeeds
json_loads_ok(line) == line.json

\* extractor.process_raw_features(raw_features): the extractor is a black box
\* that maps a decoded record to a vector; here every position holds the
\* record's payload.  d is extractor.dim.
process_raw_features(line, d) == [j \in 1..(d + line.excess) |-> line.feat]

\* ------------------------------------------------------------------ files
File(cells, pad) == [cells |-> cells, pad |-> pad]
EmptyFile == File(<<>>, 0)
Zeros(n) == [j \in 1..n |-> 0]
SizeBytes(f) == 4 * Len(f.cells) + f.pad

\* np.memmap(path, dtype=np.float32, mode="w+", shape=n cells): the file is
\* opened "w+b" (truncated), extended to the mapped size and reads as zeros.
\* An empty mapping (n = 0) depends on the numpy build: either mmap refuses
\* it (ValueError), which leaves the truncated file, or numpy writes one byte
\* so that the file can be mapped (padEmpty).
memmap_wplus(n, padEmpty) ==
    IF n = 0 THEN File(<<>>, IF padEmpty THEN 1 ELSE 0) ELSE File(Zeros(n), 0)

\* (mutation) a task's mapping appends a value to the file it opens
memmap_rplus_grows(f, n) == File(f.cells \o Zeros(1), f.pad)

\* np.memmap(path, dtype=np.float32, mode="r+", shape=n cells): an existing
\* file shorter than the mapping is extended, a longer one is left as it is.
memmap_rplus(f, n) ==
    IF SizeBytes(f) < 4 * n
    THEN File(f.cells \o Zeros(n - Len(f.cells)), 0)
    ELSE f

\* a[i] = v on a mapping of n cells (0-based i): IndexError outside [0, n)
index_ok(i, n) == i >= 0 /\ i < n

\* X[irow] = vec on a mapping of shape (n, dim): numpy broadcasts a vector of
\* length dim or 1 into the row and refuses any other length (ValueError)
broadcast_ok(vec, dim) == Len(vec) = dim \/ Len(vec) = 1

\* (mutation) the row stride is forgotten
row_offset_unscaled(irow, dim) == irow

\* row irow of a row-major mapping of shape (n, dim) starts after this many cells
row_offset(irow, dim) == irow * dim

\* (mutation) the assignment covers every row up to the task's
SetCells_upto(cells, from, vec, dim) ==
    [j \in 1..Len(cells) |->
        IF j <= from + dim
        THEN (IF Len(vec) = 1 THEN vec[1] ELSE vec[((j - 1) % dim) + 1])
        ELSE cells[j]]

\* X[irow] = vec on the cells of a mapping: the dim cells after offset from
\* take the vector's values (a vector of one value is broadcast)
SetCells(cells, from, vec, dim) ==
    [j \in 1..Len(cells) |->
        IF j > from /\ j <= from + dim
        THEN (IF Len(vec) = 1 THEN vec[1] ELSE vec[j - from])
        ELSE cells[j]]

\* ------------------------------------------------------------------ state
VARIABLES
    files,      \* [split -> sequence of input files, each a sequence of lines]
    X, y,       \* [split -> File]: X_<split>.dat and y_<split>.dat
    pc,         \* where create_vectorized_features is
    split,      \* index in Splits of the split being vectorized
    nrows,      \* [split -> the count of line 71 / 78]
    pool,       \* number of worker processes of multiprocessing.Pool()
    next,       \* enumerate(): tasks generated so far in this split
    worker,     \* [1..pool -> what the worker process is doing]
    outq,       \* task results (TRUE: returned, FALSE: raised) in completion
                \* order, not yet consumed
    received,   \* results consumed by the for loop of line 57
    run,        \* which call of create_vectorized_features this is
    counted,    \* history: the lines the counting pass saw
    issued,     \* history: the irow of every task generated in this split
    wroteX,     \* history: [irow -> number of writes of X[irow]] in this split
    wroteY,     \* history: [irow -> number of writes of y[irow]] in this split
    first,      \* history: X and y as the first run left them
    rd,         \* read_vectorized_features / train_model: the call's
                \* arguments and its result
    md          \* create_metadata: the results of pool.imap and the table

vars == <<files, X, y, pc, split, nrows, pool, next, worker, outq, received,
          run, counted, issued, wroteX, wroteY, first, rd, md>>

pipeVars == <<files, X, y, pc, split, nrows, pool, next, worker, outq,
              received, run, counted, issued, wroteX, wroteY, first>>

\* ------------------------------------------------------------ input files
RECURSIVE raw_feature_iterator(_)
\* the lines of the files in the order of file_paths, each file's in order
raw_feature_iterator(fs) ==
    IF fs = <<>> THEN <<>> ELSE Head(fs) \o raw_feature_iterator(Tail(fs))

\* lines 70 and 77: the train split has several shard files, the test split one
NumFiles(s) == IF s = "train" THEN TrainFiles ELSE 1

InputsOf(s) ==
    {fs \in [1..NumFiles(s) -> SeqsUpTo(Lines, MaxRecs)] :
        Len(raw_feature_iterator(fs)) <= MaxRecs}
TrainInputs == InputsOf("train")
TestInputs == InputsOf("test")

\* what an output file holds when something else wrote to its path
Garbage == File(<<7, 7, 7, 7, 7>>, 0)

\* the input files of a split that the program has not opened yet: what they
\* hold enters the state when the counting pass first reads them
Unopened == <<>>

Cur == Splits[split]
stream == raw_feature_iterator(files[Cur])

Idle == [st |-> "idle"]
Idx == 0..(MaxRecs + 1)
NoWrites == [i \in Idx |-> 0]
Unread == [st |-> "unread", wdim |-> Dim]
\* create_metadata has not been called
NoMeta == [st |-> "none"]

Init ==
    /\ files = [s \in SplitSet |-> Unopened]
    /\ X = [s \in SplitSet |-> EmptyFile]
    /\ y = [s \in SplitSet |-> EmptyFile]
    /\ pc = "count"
    /\ split = 1
    /\ nrows = [s \in SplitSet |-> 0]
    /\ pool \in 1..MaxWorkers
    /\ next = 0
    /\ worker = [w \in 1..pool |-> Idle]
    /\ outq = <<>>
    /\ received = 0
    /\ run = 1
    /\ counted = <<>>
    /\ issued = <<>>
    /\ wroteX = NoWrites
    /\ wroteY = NoWrites
    /\ first = <<>>
    /\ rd = Unread
    /\ md = NoMeta

\* lines 71 and 78: nrows = sum([1 for fp in raw_feature_paths for line in open(fp)])
count_rows ==
    /\ pc = "count"
    /\ \E fs \in (IF files[Cur] /= Unopened THEN {files[Cur]}
                  ELSE IF Cur = "train" THEN TrainInputs ELSE TestInputs) :
        /\ files' = [files EXCEPT ![Cur] = fs]
        /\ nrows' = [nrows EXCEPT ![Cur] = Len(raw_feature_iterator(fs))]
        /\ counted' = raw_feature_iterator(fs)
    /\ pc' = "alloc"
    /\ UNCHANGED <<X, y, split, pool, next, worker, outq, received, run,
                   issued, wroteX, wroteY, first, rd, md>>

\* (mutation) the file is opened without truncation, as mode "r+" does
alloc_file_keep(old, n, padEmpty) == memmap_rplus(old, n)

\* np.memmap(path, mode="w+", ...) on a path that holds the file old
alloc_file(old, n, padEmpty) == memmap_wplus(n, padEmpty)

\* lines 49-50: the two files are created at full size and mapped by the
\* parent; the bookkeeping of the split's tasks starts anew.  With nrows = 0
\* the first mapping is empty: the call raises after X's file was truncated,
\* or the build pads both files.
allocate ==
    /\ pc = "alloc"
    /\ \E padEmpty \in (IF nrows[Cur] = 0 THEN BOOLEAN ELSE {TRUE}) :
        IF nrows[Cur] = 0 /\ ~padEmpty
        THEN /\ X' = [X EXCEPT ![Cur] = alloc_file(@, 0, FALSE)]
             /\ y' = y
             /\ pc' = "alloc_raised"
        ELSE /\ X' = [X EXCEPT ![Cur] = alloc_file(@, nrows[Cur] * Dim, padEmpty)]
             /\ y' = [y EXCEPT ![Cur] = alloc_file(@, nrows[Cur], padEmpty)]
             /\ pc' = "mapped"
    /\ next' = 0
    /\ worker' = [w \in 1..pool |-> Idle]
    /\ outq' = <<>>
    /\ received' = 0
    /\ issued' = <<>>
    /\ wroteX' = NoWrites
    /\ wroteY' = NoWrites
    /\ UNCHANGED <<files, split, nrows, pool, run, counted, first, rd, md>>

\* the parent process holds its mappings of the split's two files
ParentMapped == pc = "mapped"

\* lines 51 and 54: del X, y drops the parent's mappings, then the pool is
\* created and the for loop of line 57 starts
release_mappings ==
    /\ ParentMapped
    /\ pc' = "drain"
    /\ UNCHANGED <<files, X, y, split, nrows, pool, next, worker, outq, received,
                   run, counted, issued, wroteX, wroteY, first, rd, md>>

\* (mutation) every task carries index 0
enumerate_task_zero(k) == [irow |-> 0, line |-> stream[k + 1]]

\* lines 55-56: the k-th task (k from 0) of enumerate(raw_feature_iterator(...))
enumerate_task(k) == [irow |-> k, line |-> stream[k + 1]]

\* (mutation) a task writes the row of its rank in completion order
dest_by_completion(t) == received + Len(outq)

\* the row of y and X a task writes: y[irow], X[irow] (lines 31 and 34)
dest_row(t) == t.irow

\* (mutation) the pool is created before the parent's mappings are dropped
PoolRuns_early == pc \in {"mapped", "drain", "raised"}

\* the pool exists and its processes run: from line 54 on, also after the for
\* loop has raised (nothing terminates the pool)
PoolRuns == pc \in {"drain", "raised"}

\* lines 27-28 in a worker: an idle process takes the next task of the
\* iterator, decodes the line and runs the extractor.  A line json.loads
\* refuses ends the task with an exception before anything is written.
vectorize_decode(w) ==
    /\ PoolRuns
    /\ worker[w].st = "idle"
    /\ next < Len(stream)
    /\ LET t == enumerate_task(next) IN
        /\ next' = next + 1
        /\ issued' = Append(issued, t.irow)
        /\ IF json_loads_ok(t.line)
           THEN /\ worker' = [worker EXCEPT ![w] =
                                [st |-> "label", irow |-> t.irow, line |-> t.line]]
                /\ outq' = outq
           ELSE /\ worker' = worker
                /\ outq' = Append(outq, FALSE)
    /\ UNCHANGED <<files, X, y, pc, split, nrows, pool, received, run, counted,
                   wroteX, wroteY, first, rd, md>>

\* lines 30-31: y = np.memmap(y_path, mode="r+", shape=nrows); y[irow] = label
vectorize_label(w) ==
    /\ PoolRuns
    /\ worker[w].st = "label"
    /\ LET t == worker[w]
           yf == memmap_rplus(y[Cur], nrows[Cur]) IN
        IF index_ok(dest_row(t), nrows[Cur])
        THEN /\ y' = [y EXCEPT ![Cur] =
                        File([yf.cells EXCEPT ![dest_row(t) + 1] = t.line.label], yf.pad)]
             /\ wroteY' = [wroteY EXCEPT ![dest_row(t)] = @ + 1]
             /\ worker' = [worker EXCEPT ![w].st = "row"]
             /\ outq' = outq
        ELSE /\ y' = [y EXCEPT ![Cur] = yf]
             /\ wroteY' = wroteY
             /\ worker' = [worker EXCEPT ![w] = Idle]
             /\ outq' = Append(outq, FALSE)
    /\ UNCHANGED <<files, X, pc, split, nrows, pool, next, received, run, counted,
                   issued, wroteX, first, rd, md>>

\* lines 33-34: X = np.memmap(X_path, mode="r+", shape=(nrows, dim));
\* X[irow] = feature_vector; the task then returns and its result is queued
vectorize_row(w) ==
    /\ PoolRuns
    /\ worker[w].st = "row"
    /\ LET t == worker[w]
           Xf == memmap_rplus(X[Cur], nrows[Cur] * Dim)
           vec == process_raw_features(t.line, Dim) IN
        IF index_ok(dest_row(t), nrows[Cur]) /\ broadcast_ok(vec, Dim)
        THEN /\ X' = [X EXCEPT ![Cur] =
                        File(SetCells(Xf.cells, row_offset(dest_row(t), Dim), vec, Dim), Xf.pad)]
             /\ wroteX' = [wroteX EXCEPT ![dest_row(t)] = @ + 1]
             /\ outq' = Append(outq, TRUE)
        ELSE /\ X' = [X EXCEPT ![Cur] = Xf]
             /\ wroteX' = wroteX
             /\ outq' = Append(outq, FALSE)
    /\ worker' = [worker EXCEPT ![w] = Idle]
    /\ UNCHANGED <<files, y, pc, split, nrows, pool, next, received, run, counted,
                   issued, wroteY, first, rd, md>>

\* (mutation) a failed task's result is taken like any other
drain_result_swallow ==
    /\ pc = "drain"
    /\ outq /= <<>>
    /\ outq' = Tail(outq)
    /\ received' = received + 1
    /\ UNCHANGED <<files, X, y, pc, split, nrows, pool, next, worker, run,
                   counted, issued, wroteX, wroteY, first, rd, md>>

\* lines 57-58: the for loop takes the next result of imap_unordered, in
\* completion order; a task's exception is raised here, in the caller
drain_result ==
    /\ pc = "drain"
    /\ outq /= <<>>
    /\ outq' = Tail(outq)
    /\ IF Head(outq)
       THEN received' = received + 1 /\ pc' = pc
       ELSE received' = received /\ pc' = "raised"
    /\ UNCHANGED <<files, X, y, split, nrows, pool, next, worker, run, counted,
                   issued, wroteX, wroteY, first, rd, md>>

\* (mutation) the loop ends as soon as no result is waiting
AllResultsTaken_NoWait == outq = <<>>

\* (mutation) the loop waits for one result more than there are tasks
AllResultsTaken_OneMore == next = Len(stream) /\ received = next + 1

\* imap_unordered's iterator stops once the task iterator is exhausted and as
\* many results were taken as tasks were generated
AllResultsTaken == next = Len(stream) /\ received = next

\* line 58 falls through: vectorize_subset returns; create_vectorized_features
\* goes on with the test split (lines 74-79) or returns
vectorize_subset_returns ==
    /\ pc = "drain"
    /\ AllResultsTaken
    /\ IF split < Len(Splits)
       THEN /\ split' = split + 1
            /\ pc' = "count"
            /\ first' = first
       ELSE /\ split' = split
            /\ pc' = "done"
            /\ first' = IF run = 1 THEN <<X, y>> ELSE first
    /\ UNCHANGED <<files, X, y, nrows, pool, next, worker, outq, received, run,
                   counted, issued, wroteX, wroteY, rd, md>>

\* create_vectorized_features is called again on the same directory, whose
\* output files are as the first call left them or were overwritten since
call_again ==
    /\ pc = "done"
    /\ run = 1
    /\ run' = run + 1
    /\ pc' = "count"
    /\ split' = 1
    /\ \/ X' = X /\ y' = y
       \/ X' = [s \in SplitSet |-> Garbage] /\ y' = [s \in SplitSet |-> Garbage]
    /\ UNCHANGED <<files, nrows, pool, next, worker, outq, received, counted,
                   issued, wroteX, wroteY, first, rd, md>>

Next ==
    \/ count_rows
    \/ allocate
    \/ release_mappings
    \/ \E w \in 1..pool : vectorize_decode(w)
    \/ \E w \in 1..pool : vectorize_label(w)
    \/ \E w \in 1..pool : vectorize_row(w)
    \/ drain_result
    \/ vectorize_subset_returns
    \/ call_again

Spec == Init /\ [][Next]_vars

\* a step of worker process w
WorkerStep(w) ==
    /\ w \in 1..pool
    /\ (vectorize_decode(w) \/ vectorize_label(w) \/ vectorize_row(w))

\* The parent process and every worker process are scheduled again and again:
\* a step that stays possible is eventually taken.  The parent's steps inside
\* vectorize_subset are the allocation, the release of its mappings, taking a
\* result and returning; calling the program (again) is left to the caller.
Fairness ==
    /\ WF_vars(allocate)
    /\ WF_vars(release_mappings)
    /\ WF_vars(drain_result)
    /\ WF_vars(vectorize_subset_returns)
    /\ \A w \in 1..MaxWorkers : WF_vars(WorkerStep(w))

\* the first call's train split: the counting pass and its one call of
\* vectorize_subset, from line 71 to the return or the exception of line 72
FirstSplit == run = 1 /\ split = 1

NextSubset ==
    \/ FirstSplit /\ count_rows
    \/ FirstSplit /\ allocate
    \/ FirstSplit /\ release_mappings
    \/ \E w \in 1..pool : FirstSplit /\ vectorize_decode(w)
    \/ \E w \in 1..pool : FirstSplit /\ vectorize_label(w)
    \/ \E w \in 1..pool : FirstSplit /\ vectorize_row(w)
    \/ FirstSplit /\ drain_result
    \/ FirstSplit /\ vectorize_subset_returns

\* one call of vectorize_subset under fair scheduling
SpecFair == Init /\ [][NextSubset]_vars /\ Fairness

\* ------------------------------------------------- inputs that change
\* The index of the last file of fs that holds a line (0: none does)
LastNonEmpty(fs) ==
    LET S == {k \in 1..Len(fs) : fs[k] /= <<>>} IN
    IF S = {} THEN 0 ELSE CHOOSE k \in S : \A j \in S : j <= k

DropLast(q) == SubSeq(q, 1, Len(q) - 1)

\* Between the counting pass (line 71 / 78) and the vectorizing pass (line
\* 56) another process appends a line to the split's last input file or
\* removes the last line of its input.
mutate_input ==
    /\ pc = "alloc"
    /\ counted = stream
    /\ \/ \E l \in GoodLines :
            files' = [files EXCEPT ![Cur][Len(files[Cur])] = Append(@, l)]
       \/ /\ LastNonEmpty(files[Cur]) > 0
          /\ files' = [files EXCEPT ![Cur][LastNonEmpty(files[Cur])] = DropLast(@)]
    /\ UNCHANGED <<X, y, pc, split, nrows, pool, next, worker, outq, received,
                   run, counted, issued, wroteX, wroteY, first, rd, md>>

NextDrift == Next \/ mutate_input

SpecDrift == Init /\ [][NextDrift]_vars

\* -------------------------------------------------------------- reading
\* np.memmap(path, dtype=np.float32, mode="r") maps the whole file as a flat
\* array: refused when the size is not a multiple of the 4 bytes of a float32,
\* and when the file is empty (an empty file cannot be mapped)
memmap_r_ok(f) == f.pad = 0 /\ SizeBytes(f) > 0

\* (mutation) a remainder is dropped instead of refused
reshape_truncates(n, ndim) == TRUE

\* a.reshape((-1, ndim)) of a flat array of n values: ValueError unless ndim
\* divides n
reshape_ok(n, ndim) == n % ndim = 0

\* (mutation) every selector is let through
known_subset_any(subset) == TRUE

\* line 86: subset is None (written "None" here) or one of "train", "test"
known_subset(subset) == subset \in {"None", "train", "test"}

Subsets == {"None", "train", "test", "validation"}

NotRead == [rows |-> -1]

\* lines 96-100 and 104-108 for one split: the matrix view and the label view,
\* or the exception of a mapping or of the reshape
read_split(s, ndim) ==
    IF memmap_r_ok(X[s]) /\ reshape_ok(Len(X[s].cells), ndim) /\ memmap_r_ok(y[s])
    THEN [raised |-> FALSE,
          Xv |-> [rows |-> Len(X[s].cells) \div ndim, dim |-> ndim,
                  cells |-> X[s].cells],
          yv |-> y[s].cells]
    ELSE [raised |-> TRUE]

\* lines 82-112: what the call returns ("None", a pair, the four views) or
\* that it raises
read_vectorized_features(subset, ndim) ==
    IF ~known_subset(subset) THEN [kind |-> "None"]
    ELSE
      LET wantTrain == subset \in {"None", "train"}
          wantTest == subset \in {"None", "test"}
      IN
      IF wantTrain /\ read_split("train", ndim).raised THEN [kind |-> "raise"]
      ELSE IF subset = "train"
      THEN [kind |-> "pair", split |-> "train", view |-> read_split("train", ndim)]
      ELSE IF wantTest /\ read_split("test", ndim).raised THEN [kind |-> "raise"]
      ELSE IF subset = "test"
      THEN [kind |-> "pair", split |-> "test", view |-> read_split("test", ndim)]
      ELSE [kind |-> "four",
            train |-> IF wantTrain THEN read_split("train", ndim) ELSE NotRead,
            test |-> IF wantTest THEN read_split("test", ndim) ELSE NotRead]

\* a caller reads the directory
read(subset, ndim) ==
    /\ rd.st = "unread"
    /\ rd' = [st |-> "read", wdim |-> rd.wdim, subset |-> subset, ndim |-> ndim,
              res |-> read_vectorized_features(subset, ndim)]
    /\ UNCHANGED <<pipeVars, md>>

RECURSIVE WrittenX(_, _)
\* the cells of X after a run over the lines q with extractor.dim = d
WrittenX(q, d) ==
    IF q = <<>> THEN <<>>
    ELSE process_raw_features(Head(q), d) \o WrittenX(Tail(q), d)

WrittenY(q) == [k \in 1..Len(q) |-> q[k].label]

\* e bytes follow the file's content
AppendBytes(f, e) == File(f.cells \o [k \in 1..(e \div 4) |-> 7], e % 4)

AsFiles(s, q) == [k \in 1..NumFiles(s) |-> IF k = 1 THEN q ELSE <<>>]

\* The directory as a run with extractor.dim = d over decodable lines left it,
\* one of the feature files possibly followed by extra bytes since.
InitRead ==
    \E d \in 1..MaxDim, tr \in SeqsUpTo(GoodLines, MaxRecs),
       te \in SeqsUpTo(GoodLines, MaxRecs), e \in 0..MaxExtra, cs \in SplitSet :
        LET q == [s \in SplitSet |-> IF s = "train" THEN tr ELSE te] IN
        /\ files = [s \in SplitSet |-> AsFiles(s, q[s])]
        /\ X = [s \in SplitSet |->
                  AppendBytes(File(WrittenX(q[s], d), 0), IF s = cs THEN e ELSE 0)]
        /\ y = [s \in SplitSet |-> File(WrittenY(q[s]), 0)]
        /\ nrows = [s \in SplitSet |-> Len(q[s])]
        /\ rd = [st |-> "unread", wdim |-> d]
        /\ pc = "done"
        /\ split = 2
        /\ pool = 1
        /\ next = 0
        /\ worker = [w \in 1..pool |-> Idle]
        /\ outq = <<>>
        /\ received = 0
        /\ run = 1
        /\ counted = <<>>
        /\ issued = <<>>
        /\ wroteX = NoWrites
        /\ wroteY = NoWrites
        /\ first = <<>>
        /\ md = NoMeta

NextRead == \E subset \in Subsets, ndim \in 1..MaxDim : read(subset, ndim)

SpecRead == InitRead /\ [][NextRead]_vars

\* ------------------------------------------------------------- training
\* (mutation) no row is filtered out
train_rows_all(yv) == [i \in 1..Len(yv) |-> TRUE]

\* line 160: train_rows = (y_train != -1), a boolean per entry of y_train
train_rows(yv) == [i \in 1..Len(yv) |-> yv[i] /= -1]

RECURSIVE boolean_index(_, _)
\* a[mask] of numpy for a boolean mask as long as a: the elements of a whose
\* mask entry is true, in a's order
boolean_index(a, mask) ==
    IF a = <<>> THEN <<>>
    ELSE (IF Head(mask) THEN <<Head(a)>> ELSE <<>>)
             \o boolean_index(Tail(a), Tail(mask))

\* the rows of a matrix view
RowsOf(Xv) ==
    [i \in 1..Xv.rows |-> SubSeq(Xv.cells, (i - 1) * Xv.dim + 1, i * Xv.dim)]

\* lines 157-163: the views of the train split are read (the call raises when
\* the read does), the mask is computed from the labels and applied to both;
\* numpy raises IndexError for a mask that is not as long as the matrix has
\* rows.  The result is the data set lgb.train is given.
train_dataset(ndim) ==
    LET res == read_vectorized_features("train", ndim) IN
    IF res.kind = "raise" THEN [raised |-> TRUE]
    ELSE LET Xv == res.view.Xv
             yv == res.view.yv
             mask == train_rows(yv) IN
         IF Len(mask) /= Xv.rows THEN [raised |-> TRUE]
         ELSE [raised |-> FALSE,
               data |-> boolean_index(RowsOf(Xv), mask),
               label |-> boolean_index(yv, mask)]

\* train_model(data_dir, year), year selecting the extractor whose dim is ndim
train_model(ndim) ==
    /\ rd.st = "unread"
    /\ rd' = [st |-> "trained", wdim |-> rd.wdim, ndim |-> ndim,
              dataset |-> train_dataset(ndim)]
    /\ UNCHANGED <<pipeVars, md>>

NextTrain == \E ndim \in 1..MaxDim : train_model(ndim)

SpecTrain == InitRead /\ [][NextTrain]_vars

\* ------------------------------------------------------------- metadata
\* A line of a features file as create_metadata reads it: whether json.loads
\* accepts it, and the decoded object as a function from its keys to values.
\* "histogram" stands for the raw feature groups, which are not metadata.
MetaA == [json |-> TRUE, data |-> [sha256 |-> 1, label |-> 1, histogram |-> 0]]
MetaB == [json |-> TRUE,
          data |-> [sha256 |-> 2, label |-> -1, avclass |-> 5, histogram |-> 0]]
MetaMalformed == [json |-> FALSE, data |-> [histogram |-> 0]]
MetaLines == {MetaA, MetaB, MetaMalformed}

MetaInputsOf(s) ==
    {fs \in [1..NumFiles(s) -> SeqsUpTo(MetaLines, MaxRecs)] :
        Len(raw_feature_iterator(fs)) <= MaxRecs}
MetaTrainInputs == MetaInputsOf("train")
MetaTestInputs == MetaInputsOf("test")

\* line 120
metadata_keys == {"sha256", "appeared", "label", "avclass"}

\* line 138
all_metadata_keys == <<"sha256", "appeared", "subset", "label", "avclass">>

\* line 121: {k: all_data[k] for k in all_data.keys() & metadata_keys}
read_metadata_record(line) ==
    [k \in (DOMAIN line.data) \cap metadata_keys |-> line.data[k]]

\* lines 132 and 136: dict(record, **{"subset": s})
with_subset(record, s) ==
    [k \in (DOMAIN record) \cup {"subset"} |->
        IF k = "subset" THEN s ELSE record[k]]

\* (mutation) results are yielded as they arrive, as imap_unordered does
imap_next_unordered(arrived, taken) ==
    IF Len(arrived) > taken THEN taken + 1 ELSE 0

\* pool.imap's iterator: the next result it yields is that of the task
\* submitted at position taken, once it has arrived (0: not yet); results
\* that arrived earlier for later tasks wait in the iterator's cache
imap_next(arrived, taken) ==
    LET S == {k \in 1..Len(arrived) : arrived[k].job = taken} IN
    IF S = {} THEN 0 ELSE CHOOSE k \in S : TRUE

\* the value pandas shows in a column for a record without that key
NaN == -999

\* line 139: [k for k in all_metadata_keys if k in train_records[0].keys()]
ordered_metadata_keys(train_records) ==
    SelectSeq(all_metadata_keys, LAMBDA k : k \in DOMAIN train_records[1])

\* line 140: pd.DataFrame(train_records + test_records)[ordered_metadata_keys]
DataFrame(records, columns) ==
    [i \in 1..Len(records) |->
        [k \in {columns[j] : j \in 1..Len(columns)} |->
            IF k \in DOMAIN records[i] THEN records[i][k] ELSE NaN]]

NoRecords == [s \in SplitSet |-> <<>>]

\* create_metadata is called on a directory: line 128 has created the pool
InitMeta ==
    /\ files = [s \in SplitSet |-> Unopened]
    /\ X = [s \in SplitSet |-> EmptyFile]
    /\ y = [s \in SplitSet |-> EmptyFile]
    /\ pc = "meta_open"
    /\ split = 1
    /\ nrows = [s \in SplitSet |-> 0]
    /\ pool \in 1..MaxWorkers
    /\ next = 0
    /\ worker = [w \in 1..pool |-> Idle]
    /\ outq = <<>>
    /\ received = 0
    /\ run = 1
    /\ counted = <<>>
    /\ issued = <<>>
    /\ wroteX = NoWrites
    /\ wroteY = NoWrites
    /\ first = <<>>
    /\ rd = Unread
    /\ md = [arrived |-> <<>>, got |-> <<>>, records |-> NoRecords,
             columns |-> <<>>, table |-> <<>>]

metaFrame == <<X, y, nrows, pool, outq, received, run, counted, issued,
               wroteX, wroteY, first, rd>>

\* lines 131 and 135: pool.imap(read_metadata_record, raw_feature_iterator(
\* paths)) starts; the split's files are opened
meta_open ==
    /\ pc = "meta_open"
    /\ \E fs \in (IF Cur = "train" THEN MetaTrainInputs ELSE MetaTestInputs) :
        files' = [files EXCEPT ![Cur] = fs]
    /\ next' = 0
    /\ md' = [md EXCEPT !.arrived = <<>>, !.got = <<>>]
    /\ pc' = "meta_imap"
    /\ UNCHANGED <<split, worker, metaFrame>>

\* a worker process takes the next task: the job number is the line's
\* position in the iterator.  Workers go on after the caller has raised.
meta_take(w) ==
    /\ pc \in {"meta_imap", "meta_raised"}
    /\ worker[w].st = "idle"
    /\ next < Len(stream)
    /\ worker' = [worker EXCEPT ![w] =
                    [st |-> "meta", job |-> next, line |-> stream[next + 1]]]
    /\ next' = next + 1
    /\ UNCHANGED <<files, pc, split, md, metaFrame>>

\* lines 119-121 in the worker: the task returns its record, or raises when
\* json.loads refuses the line; either way the result arrives at the caller
meta_finish(w) ==
    /\ pc \in {"meta_imap", "meta_raised"}
    /\ worker[w].st = "meta"
    /\ LET t == worker[w] IN
        md' = [md EXCEPT !.arrived = Append(@,
                 IF json_loads_ok(t.line)
                 THEN [job |-> t.job, ok |-> TRUE, rec |-> read_metadata_record(t.line)]
                 ELSE [job |-> t.job, ok |-> FALSE, rec |-> <<>>])]
    /\ worker' = [worker EXCEPT ![w] = Idle]
    /\ UNCHANGED <<files, pc, split, next, metaFrame>>

\* list(...) takes the iterator's next result; a task's exception is raised
\* here and create_metadata does not catch it
meta_next ==
    /\ pc = "meta_imap"
    /\ LET k == imap_next(md.arrived, Len(md.got)) IN
        /\ k > 0
        /\ IF md.arrived[k].ok
           THEN /\ md' = [md EXCEPT !.got = Append(@, md.arrived[k].rec)]
                /\ pc' = pc
           ELSE /\ md' = md
                /\ pc' = "meta_raised"
    /\ UNCHANGED <<files, split, next, worker, metaFrame>>

\* the iterator is exhausted: list(...) returns and lines 132 / 136 tag the
\* records with their subset
meta_list_done ==
    /\ pc = "meta_imap"
    /\ next = Len(stream)
    /\ Len(md.got) = next
    /\ md' = [md EXCEPT !.records[Cur] =
                [i \in 1..Len(md.got) |-> with_subset(md.got[i], Cur)]]
    /\ IF split < Len(Splits)
       THEN split' = split + 1 /\ pc' = "meta_open"
       ELSE split' = split /\ pc' = "meta_table"
    /\ UNCHANGED <<files, next, worker, metaFrame>>

\* lines 138-142: the columns are read off the first train record (IndexError
\* when there is none) and the table is built, train records first
make_table ==
    /\ pc = "meta_table"
    /\ IF md.records["train"] = <<>>
       THEN /\ pc' = "meta_raised"
            /\ md' = md
       ELSE /\ pc' = "meta_done"
            /\ md' = [md EXCEPT
                 !.columns = ordered_metadata_keys(md.records["train"]),
                 !.table = DataFrame(md.records["train"] \o md.records["test"],
                                     ordered_metadata_keys(md.records["train"]))]
    /\ UNCHANGED <<files, split, next, worker, metaFrame>>

NextMeta ==
    \/ meta_open
    \/ \E w \in 1..pool : meta_take(w)
    \/ \E w \in 1..pool : meta_finish(w)
    \/ meta_next
    \/ meta_list_done
    \/ make_table

SpecMeta == InitMeta /\ [][NextMeta]_vars

\* ------------------------------------------------------------- properties
\* the lines of split s, in the declared order of its files
LinesOf(s) == raw_feature_iterator(files[s])

\* vectorize_subset has returned normally for split s in the current call
Returned(s) ==
    \/ pc = "done"
    \/ s = "train" /\ split = 2

\* the split whose vectorize_subset call returned last, when one has
JustReturned == pc = "done" \/ (pc \in {"count", "alloc"} /\ split = 2)
LastSplit == IF pc = "done" THEN "test" ELSE "train"

Row(f, i, d) == SubSeq(f.cells, i * d + 1, i * d + d)

NoDuplicates(q) == \A i, j \in 1..Len(q) : q[i] = q[j] => i = j

\* C1: once vectorize_subset has returned normally for a split, row i of the
\* feature matrix is process_raw_features(record_i) and entry i of the label
\* vector is record_i's label, for every i below nrows, record_i being line i
\* of the split's files in declared order; for every pool size and interleaving.
C1_RowsMatchRecords ==
    \A s \in SplitSet :
        Returned(s) =>
            /\ Len(LinesOf(s)) = nrows[s]
            /\ Len(y[s].cells) = nrows[s]
            /\ Len(X[s].cells) = nrows[s] * Dim
            /\ \A i \in 0..(nrows[s] - 1) :
                /\ Row(X[s], i, Dim) = process_raw_features(LinesOf(s)[i + 1], Dim)
                /\ y[s].cells[i + 1] = LinesOf(s)[i + 1].label

C1_Witness ==
    /\ Returned("train")
    /\ pool = MaxWorkers
    /\ nrows["train"] = MaxRecs
    /\ LinesOf("train")[1] /= LinesOf("train")[2]
    /\ files["train"][1] /= <<>>
    /\ files["train"][2] /= <<>>

\* C2: with inputs that do not change between the two passes, no two tasks
\* carry the same row index and no index is written twice; when
\* vectorize_subset returns, as many tasks were generated as nrows and every
\* index below nrows was written exactly once, in X and in y, and no other.
C2_EachIndexOnce ==
    /\ NoDuplicates(issued)
    /\ \A i \in Idx : wroteX[i] <= 1 /\ wroteY[i] <= 1
    /\ JustReturned =>
        /\ Len(issued) = nrows[LastSplit]
        /\ \A i \in Idx :
            /\ wroteX[i] = (IF i < nrows[LastSplit] THEN 1 ELSE 0)
            /\ wroteY[i] = (IF i < nrows[LastSplit] THEN 1 ELSE 0)

C2_Witness ==
    /\ JustReturned
    /\ LastSplit = "test"
    /\ pool = MaxWorkers
    /\ Len(issued) = MaxRecs
    /\ wroteX[MaxRecs - 1] = 1

\* every task of the current split has returned without an exception, whether
\* or not the for loop has taken its result yet
AllTasksSucceeded ==
    /\ pc = "drain"
    /\ next = Len(stream)
    /\ \A w \in 1..pool : worker[w].st = "idle"
    /\ received + Len(outq) = next
    /\ \A k \in 1..Len(outq) : outq[k]

RECURSIVE SequentialX(_, _, _)
\* X after the first k tasks ran one after the other, in index order
SequentialX(q, n, k) ==
    IF k = 0 THEN Zeros(n * Dim)
    ELSE SetCells(SequentialX(q, n, k - 1), row_offset(k - 1, Dim),
                  process_raw_features(q[k], Dim), Dim)

RECURSIVE SequentialY(_, _, _)
\* y after the first k tasks ran one after the other, in index order
SequentialY(q, n, k) ==
    IF k = 0 THEN Zeros(n)
    ELSE [SequentialY(q, n, k - 1) EXCEPT ![k] = q[k].label]

Complete(s) == Returned(s) \/ (s = Cur /\ AllTasksSucceeded)

\* C3: a run in which every task completed leaves the files that running the
\* same tasks one after the other in index order leaves, whatever the order
\* in which the workers executed and completed them.
C3_OrderIndependent ==
    \A s \in SplitSet :
        Complete(s) =>
            /\ X[s].cells = SequentialX(LinesOf(s), nrows[s], Len(LinesOf(s)))
            /\ y[s].cells = SequentialY(LinesOf(s), nrows[s], Len(LinesOf(s)))

\* both tasks were taken and row 1 is written while row 0 is not yet
C3_Witness ==
    /\ pc = "drain"
    /\ next = 2
    /\ wroteX[1] = 1
    /\ wroteX[0] = 0
    /\ LinesOf(Cur)[1] /= LinesOf(Cur)[2]
    /\ \A k \in 1..2 : json_loads_ok(LinesOf(Cur)[k]) /\ LinesOf(Cur)[k].excess = 0

\* C4: when vectorize_subset is not in its dispatch-and-drain loop (the split
\* has returned, the next split is being counted or allocated, or the call is
\* over) no task is pending or running: every generated task was taken from
\* the iterator, has finished, and its result was consumed.
C4_DrainedBeforeReturn ==
    pc \in {"count", "alloc", "done"} =>
        /\ \A w \in 1..pool : worker[w].st = "idle"
        /\ outq = <<>>
        /\ received = Len(issued)
        /\ (JustReturned => Len(issued) = Len(LinesOf(LastSplit)))

C4_Witness ==
    /\ pc = "count"
    /\ split = 2
    /\ pool = MaxWorkers
    /\ Len(issued) = MaxRecs

\* C5: after a run of a split failed on a line that does not decode, no task
\* of that run has written a row of the split's feature matrix or label vector.
C5_AllOrNothing ==
    (pc = "raised" /\ \A k \in 1..Len(stream) : stream[k].excess = 0) =>
        \A i \in Idx : wroteX[i] = 0 /\ wroteY[i] = 0

\* C6: when the vectorizing pass sees another number of lines than the
\* counting pass counted, vectorize_subset does not return normally, and no
\* task ever writes at an index outside [0, nrows).
C6_DriftIsAnError ==
    /\ \A s \in SplitSet : Returned(s) => Len(LinesOf(s)) = nrows[s]
    /\ PoolRuns => \A i \in Idx : (wroteX[i] > 0 \/ wroteY[i] > 0) => i < nrows[Cur]

\* C10: a second call with the same inputs ends with the files the first call
\* left, whatever the files held when it started.
C10_SecondRunSameFiles ==
    (run = 2 /\ pc = "done") => <<X, y>> = first

C10_Witness ==
    /\ run = 2
    /\ pc = "done"
    /\ nrows["train"] = MaxRecs
    /\ nrows["test"] = MaxRecs
    /\ pool = MaxWorkers

\* the call read split s: it was asked for it and got as far as opening it
WasRead(s) ==
    /\ rd.st = "read"
    /\ known_subset(rd.subset)
    /\ rd.subset \in {"None", s}

\* the matrix view of split s in the result, when the call returned one
Returns(s) ==
    /\ rd.st = "read"
    /\ \/ rd.res.kind = "pair" /\ rd.res.split = s
       \/ rd.res.kind = "four"

ViewOf(s) == IF rd.res.kind = "pair" THEN rd.res.view.Xv ELSE rd.res[s].Xv

\* split s's feature file is as the run left it
Intact(s) == X[s] = File(WrittenX(LinesOf(s), rd.wdim), 0)

\* C7 as stated: a selector that is neither None nor "train" / "test" makes
\* read_vectorized_features raise; it returns nothing.
C7_InvalidSubsetRaises ==
    (rd.st = "read" /\ rd.subset \notin {"None", "train", "test"}) =>
        rd.res.kind = "raise"

\* C7 as the code has it: a selector that is neither None nor "train" /
\* "test" makes read_vectorized_features return None, without raising.
C7_InvalidSubsetReturnsNone ==
    (rd.st = "read" /\ rd.subset \notin {"None", "train", "test"}) =>
        rd.res.kind = "None"

C7_Witness ==
    /\ rd.st = "read"
    /\ rd.subset = "validation"
    /\ nrows["train"] = MaxRecs

\* C8: reading a feature file written with dimension d with another dimension
\* raises, whatever the row count and the two dimensions; a returned matrix
\* never has another row count than was written.
C8_MismatchedDimRaises ==
    \A s \in SplitSet :
        /\ (WasRead(s) /\ Intact(s) /\ rd.ndim /= rd.wdim) =>
              rd.res.kind = "raise"
        /\ (Returns(s) /\ Intact(s)) => ViewOf(s).rows = nrows[s]

\* C9: a feature file whose size is not a multiple of the row stride
\* ndim x 4 bytes makes the read fail; a returned view has exactly
\* size / (ndim x 4) rows, none dropped and none padded.
C9_StrideDividesSize ==
    \A s \in SplitSet :
        /\ (WasRead(s) /\ SizeBytes(X[s]) % (rd.ndim * 4) /= 0) =>
              rd.res.kind = "raise"
        /\ Returns(s) =>
              /\ SizeBytes(X[s]) % (rd.ndim * 4) = 0
              /\ ViewOf(s).rows = SizeBytes(X[s]) \div (rd.ndim * 4)
              /\ Len(ViewOf(s).cells) = ViewOf(s).rows * rd.ndim

\* whole float32 values, but not whole rows
C9_Witness ==
    /\ WasRead("test")
    /\ X["test"].pad = 0
    /\ Len(X["test"].cells) > rd.ndim
    /\ Len(X["test"].cells) % rd.ndim /= 0
    /\ rd.res.kind = "raise"

\* an exact multiple, read as that many rows
C9_ExactWitness ==
    /\ Returns("train")
    /\ rd.subset = "None"
    /\ ViewOf("train").rows = MaxRecs
    /\ ViewOf("test").rows = 1

\* list(pool.imap(...)) has returned for split s in create_metadata
Listed(s) ==
    \/ pc \in {"meta_table", "meta_done"}
    \/ s = "train" /\ split = 2 /\ pc \in {"meta_open", "meta_imap", "meta_raised"}

\* C11: in create_metadata the i-th record of each split is the metadata of
\* line i of the split's input, the line whose features are row i of the
\* split's matrix (C1), whatever the order in which the workers finish; the
\* table lists the train records first, then the test records, in that order.
C11_MetadataInInputOrder ==
    /\ \A s \in SplitSet :
        Listed(s) =>
            /\ Len(md.records[s]) = Len(LinesOf(s))
            /\ \A i \in 1..Len(LinesOf(s)) :
                md.records[s][i] =
                    with_subset(read_metadata_record(LinesOf(s)[i]), s)
    /\ pc = "meta_done" =>
        LET all == LinesOf("train") \o LinesOf("test") IN
        /\ Len(md.table) = Len(all)
        /\ \A i \in 1..Len(all) : md.table[i]["sha256"] = all[i].data["sha256"]

\* the two test records finished in the reverse of their submission order
C11_Witness ==
    /\ pc = "meta_done"
    /\ Len(md.arrived) = 2
    /\ md.arrived[1].job = 1
    /\ md.records["test"][1] /= md.records["test"][2]
    /\ Len(md.records["train"]) = MaxRecs

\* the split's two files have been created by the current call
Allocated(s) ==
    \/ s = Cur /\ pc \in {"mapped", "drain", "raised"}
    \/ Returned(s)

C13_AllocationRefusesOtherSize ==
    [][\A s \in SplitSet :
        (/\ pc = "alloc"
         /\ pc' /= "alloc"
         /\ s = Cur
         /\ nrows[s] >= 1
         /\ SizeBytes(X[s]) > 0
         /\ SizeBytes(X[s]) /= nrows[s] * Dim * 4)
        => (pc' = "alloc_raised" /\ X'[s] = X[s] /\ y'[s] = y[s])]_vars

\* the entries of the train labels that are not -1, and the rank of one
\* among them
Labelled == {i \in 1..Len(y["train"].cells) : y["train"].cells[i] /= -1}
RankOf(i) == Cardinality({j \in Labelled : j <= i})

\* C14: when train_model gets to train, its data set holds exactly the rows
\* of the train matrix whose label is not -1, each with its own label, in
\* the order of the train split: as many rows and labels as labelled
\* entries, and the k-th labelled entry i contributes row i and label i at
\* position k.
C14_TrainsOnLabelledRows ==
    (rd.st = "trained" /\ ~rd.dataset.raised) =>
        /\ Len(rd.dataset.data) = Cardinality(Labelled)
        /\ Len(rd.dataset.label) = Cardinality(Labelled)
        /\ \A i \in Labelled :
            /\ rd.dataset.data[RankOf(i)] = Row(X["train"], i - 1, rd.ndim)
            /\ rd.dataset.label[RankOf(i)] = y["train"].cells[i]

\* labels [1, -1] with a row of ones and a row of twos: the row of ones is
\* the single training row, its label 1
C14_Witness ==
    /\ rd.st = "trained"
    /\ ~rd.dataset.raised
    /\ y["train"].cells = <<1, -1>>
    /\ rd.ndim = MaxDim
    /\ rd.dataset.data = <<[j \in 1..MaxDim |-> 1]>>
    /\ rd.dataset.label = <<1>>

\* C15: a step of the vectorize task with index irow changes nothing but
\* entry irow of the split's label file and row irow of the split's matrix
\* file: every other cell of the two files, their sizes, the other split's
\* files and the input files are as before, whatever the other workers are
\* doing.
C15_TaskWritesOnlyItsRow ==
    [][\A w \in 1..pool :
        (PoolRuns /\ worker[w].st \in {"label", "row"} /\ worker'[w] /= worker[w]) =>
            LET i == worker[w].irow IN
            /\ files' = files
            /\ \A s \in SplitSet \ {Cur} : X'[s] = X[s] /\ y'[s] = y[s]
            /\ Len(X'[Cur].cells) = Len(X[Cur].cells)
            /\ X'[Cur].pad = X[Cur].pad
            /\ Len(y'[Cur].cells) = Len(y[Cur].cells)
            /\ y'[Cur].pad = y[Cur].pad
            /\ \A j \in 1..Len(X[Cur].cells) :
                (j <= i * Dim \/ j > i * Dim + Dim) =>
                    X'[Cur].cells[j] = X[Cur].cells[j]
            /\ \A j \in 1..Len(y[Cur].cells) :
                j /= i + 1 => y'[Cur].cells[j] = y[Cur].cells[j]]_vars

\* two tasks of the test split are under way at once, each having written its
\* label and about to write its row, over rows that differ
C15_Witness ==
    /\ pc = "drain"
    /\ Cur = "test"
    /\ pool = 2
    /\ worker[1].st = "row" /\ worker[1].irow = 1
    /\ worker[2].st = "row" /\ worker[2].irow = 0
    /\ worker[1].line /= worker[2].line

\* C16 as stated: a task that fails leaves no partial row; entry irow of the
\* labels is stored only together with row irow of the matrix, so a label
\* without its row exists only while its task is between the two writes.
C16_NoPartialRow ==
    \A i \in Idx :
        (wroteY[i] > 0 /\ wroteX[i] = 0) =>
            \E w \in 1..pool : worker[w].st = "row" /\ worker[w].irow = i

\* every line of split s decodes and gets a vector that fits a row: none of
\* the split's tasks raises
NoTaskRaises(s) ==
    \A k \in 1..Len(LinesOf(s)) :
        /\ json_loads_ok(LinesOf(s)[k])
        /\ broadcast_ok(process_raw_features(LinesOf(s)[k], Dim), Dim)

\* C17: vectorize_subset returns normally for a split only if none of the
\* split's tasks raises, for every pool size and interleaving; and when a
\* task of the train split raises, create_vectorized_features never gets to
\* the test split: its input is not read and its files are not allocated.
C17_FailureNeverReturns ==
    /\ \A s \in SplitSet : Returned(s) => NoTaskRaises(s)
    /\ (run = 1 /\ ~NoTaskRaises("train")) =>
        /\ split = 1
        /\ pc /= "done"
        /\ files["test"] = Unopened
        /\ X["test"] = EmptyFile
        /\ y["test"] = EmptyFile

\* the second train task raised, the first wrote its row, every task is over
\* and the call has raised instead of returning
C17_Witness ==
    /\ pc = "raised"
    /\ split = 1
    /\ Len(stream) = 2
    /\ ~json_loads_ok(stream[2])
    /\ next = 2
    /\ wroteX[0] = 1
    /\ \A w \in 1..pool : worker[w] = Idle
    /\ outq = <<>>

\* a worker process has a task of the current split under way
TaskRunning == \E w \in 1..pool : worker[w] /= Idle

\* C18: within a split the steps come in the order count, allocate, release
\* the parent's mappings, dispatch.  The row count is the one the counting
\* pass fixed when the files are allocated; both files have their full size
\* before any task is generated or writes, and keep it while tasks run; no
\* task is generated, running or has written while the split is still
\* counted, allocated or mapped by the parent, so the parent holds no mapping
\* while a task runs.
C18_CountAllocateReleaseDispatch ==
    /\ pc \in {"mapped", "drain", "raised"} =>
        /\ nrows[Cur] = Len(counted)
        /\ Len(X[Cur].cells) = nrows[Cur] * Dim
        /\ Len(y[Cur].cells) = nrows[Cur]
    /\ pc \in {"count", "alloc", "alloc_raised"} => ~TaskRunning
    /\ ParentMapped =>
        /\ ~TaskRunning
        /\ next = 0
        /\ issued = <<>>
        /\ outq = <<>>
        /\ \A i \in Idx : wroteX[i] = 0 /\ wroteY[i] = 0
    /\ TaskRunning => (PoolRuns /\ ~ParentMapped)

\* the test split of a second call: a task is running on files of full size
\* after the count, the allocation and the release of the parent's mappings
C18_Witness ==
    /\ run = 2
    /\ Cur = "test"
    /\ pc = "drain"
    /\ nrows["test"] = MaxRecs
    /\ TaskRunning
    /\ wroteX[0] = 1

\* the keys that occur in some record of either split of the table
PresentKeys ==
    LET all == md.records["train"] \o md.records["test"] IN
    UNION {DOMAIN all[i] : i \in 1..Len(all)}

\* C19 as stated: the columns of the metadata table are exactly the keys
\* among sha256, appeared, subset, label, avclass that occur in some record
\* of either split, in that order; a key that some record has is not dropped
\* because another record lacks it.
C19_ColumnsArePresentKeys ==
    pc = "meta_done" =>
        md.columns = SelectSeq(all_metadata_keys, LAMBDA k : k \in PresentKeys)

\* vectorize_subset has been called for the current split and has neither
\* returned nor raised
InVectorizeSubset == pc \in {"alloc", "mapped", "drain"}

\* C20: with a finite input whose tasks each return or raise and with fair
\* scheduling of the parent and of the workers, a call of
\* vectorize_subset eventually returns or raises: the pool does not
\* deadlock, for every pool size, number of tasks (none, fewer than workers,
\* more) and completion order.
C20_EventuallyReturnsOrRaises == InVectorizeSubset ~> ~InVectorizeSubset

\* one task for a pool of two workers: the task is under way, the other
\* worker has nothing to take, the caller waits for the result
C20_Witness ==
    /\ pc = "drain"
    /\ pool = 2
    /\ Len(stream) = 1
    /\ next = 1
    /\ TaskRunning
    /\ outq = <<>>
====
